---- MODULE Spec2Model ----
(***************************************************************************)
(* gitlabber: the group/subgroup/project tree (gitlab_tree.py) and the     *)
(* bounded-concurrency sync of its leaves (git.py).                        *)
(*                                                                         *)
(* Strings are sequences of one-character strings, so that joining,        *)
(* splitting and glob matching are computed character by character.        *)
(* A tree is a nested record: a node holds the ordered sequence of its     *)
(* children, as anytree's Node does; detaching a node (child.parent =      *)
(* None) removes it from that sequence and keeps the siblings' order.      *)
(***************************************************************************)
EXTENDS Integers, Sequences, FiniteSets, TLC

VARIABLES
    \* ---- GitlabTree object (gitlab_tree.py) ----
    root,          \* self.root: the tree
    includes,      \* self.includes: list of glob patterns
    excludes,      \* self.excludes: list of glob patterns
    \* ---- the filter runs of SpecFilter ----
    input,         \* the tree before the first filter_tree call
    prevRoot,      \* the tree before the latest filter_tree call
    filterRuns,    \* number of filter_tree(root) calls made
    \* ---- GitlabTree configuration and the world load_tree reads ----
    in_file,       \* self.in_file: None or the name of the file to load
    user_projects, \* self.user_projects
    naming,        \* self.naming: "path", "name" or "branch"
    include_shared,\* self.include_shared
    group_parent,  \* remote: group id -> parent group id, 0 for a top-level group
    project_group, \* remote: project id -> id of the group that owns it
    project_shared,\* remote: project id -> id of the group it is shared into, or 0
    user_owned,    \* remote: ids of the current user's personal projects
    fault,         \* the remote call that fails in this run, and how
    file,          \* the input file: its state and the tree dict it holds
    loadState,     \* "new", then how load_tree ended: "returned" or "raised"
    \* ---- a sync run (git.py) and the filesystem under dest ----
    entry,         \* the method called: "GitlabTree.sync_tree" or "git.sync_tree"
    dest,          \* destination directory
    concurrency,   \* max_workers of the pool
    recursive,     \* clone/update submodules too
    use_fetch,     \* fetch (and mirror-clone) instead of pull
    git_options,   \* the git options string the user supplied, or None
    dirs,          \* filesystem: the paths that exist as directories
    repos,         \* filesystem: the paths that are valid git repositories
    bare,          \* filesystem: the repositories that are bare mirrors
    actions,       \* the list get_git_actions returned
    started,       \* number of work items the pool has taken off its queue
    running,       \* indices of the actions a worker is executing
    result,        \* action index -> how its future ended, "none" while pending
    op,            \* action index -> the VCS operation performed for it
    todo,          \* action index -> the matched branches still to reconcile
    wt,            \* action index -> the worktree operations made for it, in order
    syncState      \* "new", "running", "returned", or the exception raised

treeVars == <<root, includes, excludes>>
filterVars == <<input, prevRoot, filterRuns>>
loadVars == <<in_file, user_projects, naming, include_shared, group_parent,
              project_group, project_shared, user_owned, fault, file, loadState>>
syncVars == <<entry, dest, concurrency, recursive, use_fetch, git_options, dirs,
              repos, bare, actions, started, running, result, op, todo, wt,
              syncState>>
vars == <<treeVars, filterVars, loadVars, syncVars>>

(***************************************************************************)
(* Strings                                                                 *)
(***************************************************************************)
None == <<>>          \* Python's None / "" (both falsy where the code tests them)
SEP == "/"

\* "/".join(parts)
RECURSIVE Join(_)
Join(parts) ==
    IF parts = <<>> THEN <<>>
    ELSE IF Len(parts) = 1 THEN parts[1]
    ELSE parts[1] \o <<SEP>> \o Join(Tail(parts))

Drop(s, k) == SubSeq(s, k + 1, Len(s))

\* globre.match(pattern, string): the glob must match the whole string;
\* "**" matches any characters, "*" any characters but the separator,
\* "?" one character but the separator, anything else itself.
RECURSIVE GlobMatch(_, _)
GlobMatch(p, s) ==
    IF p = <<>> THEN s = <<>>
    ELSE IF Len(p) >= 2 /\ p[1] = "*" /\ p[2] = "*"
    THEN \E k \in 0..Len(s) : GlobMatch(Drop(p, 2), Drop(s, k))
    ELSE IF p[1] = "*"
    THEN \E k \in 0..Len(s) :
            /\ \A i \in 1..k : s[i] # SEP
            /\ GlobMatch(Tail(p), Drop(s, k))
    ELSE IF p[1] = "?"
    THEN s # <<>> /\ s[1] # SEP /\ GlobMatch(Tail(p), Tail(s))
    ELSE s # <<>> /\ s[1] = p[1] /\ GlobMatch(Tail(p), Tail(s))

(***************************************************************************)
(* Tree nodes                                                              *)
(***************************************************************************)
\* Node("", root_path="", url=url, type="root")
EmptyRoot ==
    [name |-> <<>>, type |-> "root", root_path |-> <<>>,
     default_branch |-> None, children |-> <<>>]

IsLeaf(node) == node.children = <<>>

\* Mutant: the default branch is left out of the path.
root_pathNoBranch(pathNames, default_branch) == Join(pathNames)

\* root_path(node, default_branch): pathNames are the names of node.path,
\* from the root down to the node itself.
root_path(pathNames, default_branch) ==
    Join(IF default_branch # None
         THEN Append(pathNames, default_branch)
         ELSE pathNames)

\* make_node(type, name, parent, url, default_branch=...): parentNames are
\* the names of parent.path; the new node has no children yet.
make_node(type, name, parentNames, default_branch) ==
    [name |-> name, type |-> type,
     root_path |-> root_path(Append(parentNames, name), default_branch),
     default_branch |-> default_branch, children |-> <<>>]

\* The nodes of the subtree below `node` (node itself excluded), in pre-order.
RECURSIVE Descendants(_), DescendantsOfAll(_)
DescendantsOfAll(cs) ==
    IF cs = <<>> THEN <<>>
    ELSE <<Head(cs)>> \o Descendants(Head(cs)) \o DescendantsOfAll(Tail(cs))
Descendants(node) == DescendantsOfAll(node.children)

Range(f) == {f[i] : i \in DOMAIN f}

(***************************************************************************)
(* Filter Engine                                                           *)
(***************************************************************************)
\* Mutant: a pattern may match from any position of the path (a search).
is_includedSearch(node) ==
    IF includes = <<>> THEN TRUE
    ELSE \E i \in 1..Len(includes) :
            \E k \in 0..Len(node.root_path) :
                GlobMatch(includes[i], Drop(node.root_path, k))

is_included(node) ==
    IF includes = <<>> THEN TRUE
    ELSE \E i \in 1..Len(includes) : GlobMatch(includes[i], node.root_path)

is_excluded(node) ==
    IF excludes = <<>> THEN FALSE
    ELSE \E i \in 1..Len(excludes) : GlobMatch(excludes[i], node.root_path)

RECURSIVE filter_tree(_), FilterChildren(_)

\* Mutant: an emptied child is not tested again.
FilterChildrenNoRetest(cs) ==
    IF cs = <<>> THEN <<>>
    ELSE LET child == Head(cs)
             rest == FilterChildren(Tail(cs))
         IN  IF ~IsLeaf(child)
             THEN <<filter_tree(child)>> \o rest
             ELSE IF ~is_included(child) \/ is_excluded(child)
                  THEN rest
                  ELSE <<child>> \o rest

\* Mutant: the loop walks the live child list, so the sibling that follows a
\* detached child is skipped.
FilterChildrenLive(cs) ==
    IF cs = <<>> THEN <<>>
    ELSE LET child == Head(cs)
             after == IF ~IsLeaf(child) THEN filter_tree(child) ELSE child
             drop == IsLeaf(after) /\ (~is_included(after) \/ is_excluded(after))
         IN  IF drop
             THEN IF Len(cs) >= 2
                  THEN <<cs[2]>> \o FilterChildren(Drop(cs, 2))
                  ELSE <<>>
             ELSE <<after>> \o FilterChildren(Tail(cs))

\* The loop of filter_tree over parent.children (a tuple taken before the
\* loop starts): the children that stay attached, in order.
FilterChildren(cs) ==
    IF cs = <<>> THEN <<>>
    ELSE LET child == Head(cs)
             rest == FilterChildren(Tail(cs))
         IN  IF ~IsLeaf(child)
             THEN LET after == filter_tree(child)
                  IN  IF IsLeaf(after)
                      THEN IF ~is_included(after) \/ is_excluded(after)
                           THEN rest
                           ELSE <<after>> \o rest
                      ELSE <<after>> \o rest
             ELSE IF ~is_included(child) \/ is_excluded(child)
                  THEN rest
                  ELSE <<child>> \o rest

filter_tree(parent) == [parent EXCEPT !.children = FilterChildren(parent.children)]

(***************************************************************************)
(* The remote service                                                      *)
(***************************************************************************)
NumGroups == 2         \* groups on the remote, ids 1..NumGroups
NumProjects == 2       \* projects on the remote, ids 1..NumProjects

GroupIds == 1..NumGroups
ProjectIds == 1..NumProjects

\* A group's display name and its path slug; a project's name, slug and
\* default branch (None when the project has none).
GroupNames == << <<"G">>, <<"S">>, <<"T">>, <<"U">>, <<"V">> >>
GroupPaths == << <<"g">>, <<"s">>, <<"t">>, <<"u">>, <<"v">> >>
ProjectNames ==
    << <<"P", "1">>, <<"P", "2">>, <<"P", "3">>, <<"P", "4">>, <<"P", "5">> >>
ProjectPaths ==
    << <<"p", "1">>, <<"p", "2">>, <<"p", "3">>, <<"p", "4">>, <<"p", "5">> >>
MAIN == <<"m", "a", "i", "n">>
ProjectBranch(p) == IF p % 2 = 1 THEN MAIN ELSE None
Username == <<"u">>

\* The ids in S, in increasing order: the order the remote lists them in.
RECURSIVE Sorted(_)
Sorted(S) ==
    IF S = {} THEN <<>>
    ELSE LET m == CHOOSE x \in S : \A y \in S : x <= y
         IN  <<m>> \o Sorted(S \ {m})

\* group.subgroups.list()
SubgroupsOf(g) == Sorted({s \in GroupIds : group_parent[s] = g})

\* group.projects.list(with_shared=...): the projects the group owns and,
\* when with_shared is set, the projects shared into it.
ProjectsOf(g, with_shared) ==
    Sorted({p \in ProjectIds :
               \/ project_group[p] = g
               \/ with_shared /\ project_shared[p] = g})

\* group.shared_projects.list(): the projects shared into the group.
SharedProjectsOf(g) == Sorted({p \in ProjectIds : project_shared[p] = g})

\* The failures a remote call may end in, and the exception python-gitlab
\* raises for each: a 401 is a GitlabAuthenticationError whatever the call;
\* any other failure of a list call is a GitlabListError, of a get call a
\* GitlabGetError.
FailureKinds == {"NotFound", "Forbidden", "ListError", "AuthError"}
NoFault == [call |-> "none", group |-> 0, kind |-> "none"]

Raised(call, g) ==
    IF fault.call # call \/ fault.group # g THEN "none"
    ELSE IF fault.kind = "AuthError" THEN "GitlabAuthenticationError"
    ELSE IF call = "get" THEN "GitlabGetError"
    ELSE "GitlabListError"

(***************************************************************************)
(* Tree Builder                                                            *)
(* A builder call returns [nodes, exc]: the nodes it attached to its       *)
(* parent, in order, and the exception that left it ("none" when it        *)
(* returned). Nodes attached before an exception stay attached.            *)
(* self.protected_branches is off, so add_projects makes no remote call.   *)
(***************************************************************************)
Returned(nodes) == [nodes |-> nodes, exc |-> "none"]

\* add_projects(parent, projects): one project node per project.
RECURSIVE add_projects(_, _)
add_projects(projects, parentNames) ==
    IF projects = <<>> THEN <<>>
    ELSE LET p == Head(projects)
             project_id == IF naming = "name" THEN ProjectNames[p] ELSE ProjectPaths[p]
             default_branch == IF naming = "branch" THEN ProjectBranch(p) ELSE None
         IN  <<make_node("project", project_id, parentNames, default_branch)>>
                 \o add_projects(Tail(projects), parentNames)

\* get_projects(group, parent): the listed projects are added, then, with
\* include_shared, the projects of group.shared_projects (a manager every
\* Group of python-gitlab carries) are added as well. Only a GitlabListError
\* is caught.
get_projects(g, parentNames) ==
    LET e == Raised("projects", g)
        listed == add_projects(ProjectsOf(g, include_shared), parentNames)
        e2 == Raised("shared", g)
    IN  IF e = "GitlabListError" THEN Returned(<<>>)
        ELSE IF e # "none" THEN [nodes |-> <<>>, exc |-> e]
        ELSE IF ~include_shared THEN Returned(listed)
        ELSE IF e2 = "GitlabListError" THEN Returned(listed)
        ELSE IF e2 # "none" THEN [nodes |-> listed, exc |-> e2]
        ELSE Returned(listed \o add_projects(SharedProjectsOf(g), parentNames))

RECURSIVE get_subgroups(_, _), SubgroupLoop(_, _)

\* One pass of the loop body of get_subgroups, without its except clause.
SubgroupBody(sg, parentNames) ==
    LET e == Raised("get", sg)
    IN  IF e # "none" THEN [nodes |-> <<>>, exc |-> e]
        ELSE LET subgroup_id == IF naming = "name" THEN GroupNames[sg] ELSE GroupPaths[sg]
                 node == make_node("subgroup", subgroup_id, parentNames, None)
                 names == Append(parentNames, subgroup_id)
                 subs == get_subgroups(sg, names)
                 projs == IF subs.exc = "none" THEN get_projects(sg, names)
                          ELSE [nodes |-> <<>>, exc |-> subs.exc]
             IN  [nodes |-> <<[node EXCEPT !.children = subs.nodes \o projs.nodes]>>,
                  exc |-> projs.exc]

\* The loop of get_subgroups: a GitlabGetError skips to the next subgroup,
\* any other exception leaves the loop.
SubgroupLoop(sgs, parentNames) ==
    IF sgs = <<>> THEN Returned(<<>>)
    ELSE LET body == SubgroupBody(Head(sgs), parentNames)
         IN  IF body.exc \in {"none", "GitlabGetError"}
             THEN LET rest == SubgroupLoop(Tail(sgs), parentNames)
                  IN  [nodes |-> body.nodes \o rest.nodes, exc |-> rest.exc]
             ELSE body

\* get_subgroups(group, parent): a GitlabListError, from the listing or from
\* the loop, is caught.
get_subgroups(g, parentNames) ==
    LET e == Raised("subgroups", g)
    IN  IF e = "GitlabListError" THEN Returned(<<>>)
        ELSE IF e # "none" THEN [nodes |-> <<>>, exc |-> e]
        ELSE LET r == SubgroupLoop(SubgroupsOf(g), parentNames)
             IN  [nodes |-> r.nodes,
                  exc |-> IF r.exc = "GitlabListError" THEN "none" ELSE r.exc]

\* The loop of load_gitlab_tree over every group the remote lists: a group
\* with a parent is passed over; any exception is caught per group.
RECURSIVE GroupLoop(_)
GroupLoop(groups) ==
    IF groups = <<>> THEN <<>>
    ELSE LET g == Head(groups)
             rest == GroupLoop(Tail(groups))
         IN  IF group_parent[g] # 0 THEN rest
             ELSE LET group_id == IF naming = "name" THEN GroupNames[g] ELSE GroupPaths[g]
                      names == <<EmptyRoot.name, group_id>>
                      node == make_node("group", group_id, <<EmptyRoot.name>>, None)
                      subs == get_subgroups(g, names)
                      projs == IF subs.exc = "none" THEN get_projects(g, names)
                               ELSE Returned(<<>>)
                  IN  <<[node EXCEPT !.children = subs.nodes \o projs.nodes]>> \o rest

\* load_gitlab_tree(): the root after it; it never raises.
load_gitlab_tree ==
    IF Raised("groups", 0) # "none" THEN EmptyRoot
    ELSE [EmptyRoot EXCEPT !.children = GroupLoop(Sorted(GroupIds))]

PERSONAL ==
    <<"-", "p", "e", "r", "s", "o", "n", "a", "l",
      "-", "p", "r", "o", "j", "e", "c", "t", "s">>

\* load_user_tree(): the root after it; it never raises.
load_user_tree ==
    IF Raised("user", 0) # "none" THEN EmptyRoot
    ELSE LET name == Username \o PERSONAL
             node == make_node("group", name, <<EmptyRoot.name>>, None)
             projects == add_projects(Sorted(user_owned), <<EmptyRoot.name, name>>)
         IN  [EmptyRoot EXCEPT !.children = <<[node EXCEPT !.children = projects]>>]

\* load_file_tree(): DictImporter builds the nodes with the attributes the
\* file stores; a file that cannot be read leaves self.root as it is.
load_file_tree ==
    IF file.state = "ok" THEN file.tree ELSE EmptyRoot

\* The tree load_tree hands to filter_tree.
Loaded ==
    IF in_file # None THEN load_file_tree
    ELSE IF user_projects THEN load_user_tree
    ELSE load_gitlab_tree

(***************************************************************************)
(* Sync Engine (git.py)                                                    *)
(***************************************************************************)
MaxSyncNodes == 2      \* nodes below the root of a tree that is synced
MaxConcurrency == 2    \* largest pool size tried

RECURSIVE_FLAG == <<"-", "-", "r", "e", "c", "u", "r", "s", "i", "v", "e">>
MIRROR_FLAG == <<"-", "-", "m", "i", "r", "r", "o", "r">>

\* s.split(',')
RECURSIVE Split(_)
Split(s) ==
    IF \A i \in 1..Len(s) : s[i] # ","
    THEN <<s>>
    ELSE LET k == CHOOSE i \in 1..Len(s) : s[i] = "," /\ \A j \in 1..(i - 1) : s[j] # ","
         IN  <<SubSeq(s, 1, k - 1)>> \o Split(Drop(s, k))

\* GitAction(node, path, recursive, use_fetch, hide_token): git_options is
\* not passed and keeps its default, None.
GitAction(node, path, rec, fetch) ==
    [node |-> node, path |-> path, recursive |-> rec, use_fetch |-> fetch,
     git_options |-> None]

RECURSIVE get_git_actions(_, _, _, _), ActionsOfChildren(_, _, _, _)

\* Mutant: an action is made for every child, leaf or not.
ActionsOfChildrenAll(cs, d, rec, fetch) ==
    IF cs = <<>> THEN <<>>
    ELSE LET child == Head(cs)
             path == d \o child.root_path
         IN  <<GitAction(child, path, rec, fetch)>>
                 \o (IF ~IsLeaf(child) THEN get_git_actions(child, d, rec, fetch) ELSE <<>>)
                 \o ActionsOfChildren(Tail(cs), d, rec, fetch)

\* The loop of get_git_actions over root.children.
ActionsOfChildren(cs, d, rec, fetch) ==
    IF cs = <<>> THEN <<>>
    ELSE LET child == Head(cs)
             path == d \o child.root_path
         IN  (IF IsLeaf(child) THEN <<GitAction(child, path, rec, fetch)>> ELSE <<>>)
                 \o (IF ~IsLeaf(child) THEN get_git_actions(child, d, rec, fetch) ELSE <<>>)
                 \o ActionsOfChildren(Tail(cs), d, rec, fetch)

get_git_actions(node, d, rec, fetch) == ActionsOfChildren(node.children, d, rec, fetch)

\* The directories get_git_actions makes on its way: one per descendant.
MadeDirs(node, d) == { d \o n.root_path : n \in Range(Descendants(node)) }

\* is_git_repo(path)
is_git_repo(path) == path \in repos

\* The clone options clone_or_pull_project assembles for an action.
multi_options(action) ==
    (IF action.recursive THEN <<RECURSIVE_FLAG>> ELSE <<>>)
        \o (IF action.use_fetch THEN <<MIRROR_FLAG>> ELSE <<>>)
        \o (IF action.git_options # None THEN Split(action.git_options) ELSE <<>>)

\* Mutant: whatever is not a repository is cloned, project or not.
OperationCloneAll(action) ==
    IF is_git_repo(action.path)
    THEN [kind |-> IF action.use_fetch THEN "fetch" ELSE "pull", options |-> <<>>]
    ELSE [kind |-> "clone", options |-> multi_options(action)]

\* The first VCS operation clone_or_pull_project makes for an action.
Operation(action) ==
    IF is_git_repo(action.path)
    THEN [kind |-> IF action.use_fetch THEN "fetch" ELSE "pull", options |-> <<>>]
    ELSE IF action.node.type # "project"
    THEN [kind |-> "skip", options |-> <<>>]
    ELSE [kind |-> "clone", options |-> multi_options(action)]

\* How the VCS operation of an action may end, and how the work item's
\* future ends then: an error is caught and logged inside
\* clone_or_pull_project, which returns; a KeyboardInterrupt is answered by
\* sys.exit(0), and the SystemExit it raises is caught by the pool's work
\* item (concurrent.futures catches BaseException) and stored in the future.
Outcomes == {"ok", "error", "interrupt"}
FutureOf(outcome) ==
    IF outcome = "interrupt" THEN "SystemExit" ELSE outcome

(***************************************************************************)
(* Protected-branch worktrees (git.py)                                     *)
(***************************************************************************)
\* hasattr(node, attr): a node carries an attribute only once it was set.
hasattr(node, attr) == attr \in DOMAIN node

\* make_node(..., protected_branches=...): the attribute is set only for a
\* list that is not empty.
SetProtected(node, protected_branches) ==
    IF protected_branches # <<>>
    THEN node @@ [protected_branches |-> protected_branches]
    ELSE node

\* fnmatch.fnmatch(name, pattern) on a POSIX system: "*" matches any
\* characters, the separator included, "?" any one character, anything
\* else itself.
RECURSIVE FnMatch(_, _)
FnMatch(s, p) ==
    IF p = <<>> THEN s = <<>>
    ELSE IF p[1] = "*"
    THEN \E k \in 0..Len(s) : FnMatch(Drop(s, k), Tail(p))
    ELSE IF p[1] = "?"
    THEN s # <<>> /\ FnMatch(Tail(s), Tail(p))
    ELSE s # <<>> /\ s[1] = p[1] /\ FnMatch(Tail(s), Tail(p))

ORIGIN == <<"o", "r", "i", "g", "i", "n", "/">>
RELEASE1 == <<"r", "/", "1">>
RELEASE2 == <<"r", "/", "2">>

\* The branch checked out in the main working tree of a clone.
HeadBranch == MAIN

\* repo.references of the repository at `path`: a working copy holds its
\* local branch and the remote-tracking branches of origin; a mirror holds
\* the remote's branches under their own names.
References(path, mirrors) ==
    IF path \in mirrors
    THEN <<MAIN, RELEASE1, RELEASE2>>
    ELSE <<MAIN, ORIGIN \o MAIN, ORIGIN \o RELEASE1, ORIGIN \o RELEASE2>>

\* list_branches_matching_patterns(repo, patterns), on repo.references
RECURSIVE list_branches_matching_patterns(_, _)
list_branches_matching_patterns(refs, patterns) ==
    IF refs = <<>> THEN <<>>
    ELSE LET name == Head(refs)
             rest == list_branches_matching_patterns(Tail(refs), patterns)
             branch_name == Drop(name, Len(ORIGIN))
         IN  IF ~(Len(name) >= Len(ORIGIN) /\ SubSeq(name, 1, Len(ORIGIN)) = ORIGIN)
             THEN rest
             ELSE IF \E k \in 1..Len(patterns) : FnMatch(branch_name, patterns[k])
                  THEN <<branch_name>> \o rest
                  ELSE rest

\* create_or_update_protected_branch_worktrees(repo, action), up to the
\* loop: the branches create_or_update_worktrees is called with.
MatchedBranches(action, mirrors) ==
    IF ~hasattr(action.node, "protected_branches") THEN <<>>
    ELSE IF action.node.protected_branches = <<>> THEN <<>>
    ELSE list_branches_matching_patterns(References(action.path, mirrors),
                                         action.node.protected_branches)

\* git.HEAD.name: git.HEAD is the class, not a reference of the repository,
\* and name is a property of the class; the expression is the property
\* object, which equals no string.
HEAD_name == <<"<property object>">>

\* os.path.dirname of a path without a trailing separator.
RECURSIVE ParentDir(_)
ParentDir(path) ==
    IF path = <<>> THEN <<>>
    ELSE IF path[Len(path)] = SEP THEN SubSeq(path, 1, Len(path) - 1)
    ELSE ParentDir(SubSeq(path, 1, Len(path) - 1))

\* os.path.join(repo.working_tree_dir, os.path.pardir,
\* branch.replace('/', '-')), with the ".." resolved as the filesystem does.
WorktreePath(working_tree_dir, branch) ==
    ParentDir(working_tree_dir) \o <<SEP>>
        \o [k \in 1..Len(branch) |-> IF branch[k] = "/" THEN "-" ELSE branch[k]]

\* Mutant: a worktree is created whether its path exists or not.
WorktreeOperationCreate(path) == "add"

\* The body of the loop of create_or_update_worktrees after the HEAD test:
\* update_worktree for a path that exists, create_worktree otherwise.
WorktreeOperation(path) ==
    IF path \in dirs THEN "pull" ELSE "add"

\* How a worktree operation may end: create_worktree and update_worktree
\* catch and log an error; a KeyboardInterrupt is no Exception and leaves
\* clone_or_pull_project through the else clause of its try statement.
\* git refuses to add a worktree for the branch that the main working tree
\* has checked out.
WorktreeOutcomes(kind, branch) ==
    IF kind = "add" /\ branch = HeadBranch
    THEN {"error", "interrupt"}
    ELSE Outcomes


(***************************************************************************)
(* Bounded inputs: trees                                                   *)
(***************************************************************************)
MaxNodes == 4          \* nodes below the root of an input tree
MaxFilterRuns == 2     \* filter_tree(root) calls in one behaviour

NodeNames == {<<"a">>, <<"b">>}

\* Ordered forests of exactly n nodes: shape and names only.
RECURSIVE ForestsOf(_)
ForestsOf(n) ==
    IF n = 0 THEN {<<>>}
    ELSE UNION { { <<[name |-> nm, children |-> kids]>> \o rest :
                     nm \in NodeNames,
                     kids \in ForestsOf(k - 1),
                     rest \in ForestsOf(n - k) } : k \in 1..n }

\* The tree make_node builds for a shape: every node gets its root_path from
\* the names above it; a node with children is a group (below the root) or a
\* subgroup, a node without is a project.
RECURSIVE Built(_, _), BuiltAll(_, _)
BuiltAll(raws, parentNames) ==
    IF raws = <<>> THEN <<>>
    ELSE <<Built(Head(raws), parentNames)>> \o BuiltAll(Tail(raws), parentNames)
Built(raw, parentNames) ==
    LET type == IF raw.children = <<>> THEN "project"
                ELSE IF Len(parentNames) = 1 THEN "group" ELSE "subgroup"
        node == make_node(type, raw.name, parentNames, None)
    IN  [node EXCEPT !.children = BuiltAll(raw.children, Append(parentNames, raw.name))]

InputTrees ==
    { [EmptyRoot EXCEPT !.children = BuiltAll(f, <<EmptyRoot.name>>)] :
        f \in UNION { ForestsOf(n) : n \in 0..MaxNodes } }

PatternLists ==
    { <<>>,
      << <<"/", "a", "/", "*">> >>,
      << <<"/", "*", "*", "/", "b">> >>,
      << <<"/", "?", "/", "a">>, <<"/", "b">> >>,
      << <<"a", "/", "*">> >> }

(***************************************************************************)
(* SpecFilter: filter_tree(root) on any tree                               *)
(***************************************************************************)
\* The load variables of a GitlabTree on which load_tree is not run.
NoFile == [state |-> "missing", tree |-> EmptyRoot]
LoadIdle ==
    /\ in_file = None
    /\ user_projects = FALSE
    /\ naming = "path"
    /\ include_shared = FALSE
    /\ group_parent = [g \in GroupIds |-> 0]
    /\ project_group = [p \in ProjectIds |-> 1]
    /\ project_shared = [p \in ProjectIds |-> 0]
    /\ user_owned = {}
    /\ fault = NoFault
    /\ file = NoFile
    /\ loadState = "new"

\* The sync variables of a process in which no sync run is made.
NoOp == [kind |-> "none", options |-> <<>>]
SyncIdle ==
    /\ entry = "GitlabTree.sync_tree"
    /\ dest = <<"d">>
    /\ concurrency = 1
    /\ recursive = FALSE
    /\ use_fetch = FALSE
    /\ git_options = None
    /\ dirs = {}
    /\ repos = {}
    /\ bare = {}
    /\ actions = <<>>
    /\ started = 0
    /\ running = {}
    /\ result = <<>>
    /\ op = <<>>
    /\ todo = <<>>
    /\ wt = <<>>
    /\ syncState = "new"

InitFilter ==
    /\ input \in InputTrees
    /\ root = input
    /\ prevRoot = input
    /\ includes \in PatternLists
    /\ excludes \in PatternLists
    /\ filterRuns = 0
    /\ LoadIdle
    /\ SyncIdle

FilterRoot ==
    /\ filterRuns < MaxFilterRuns
    /\ root' = filter_tree(root)
    /\ prevRoot' = root
    /\ filterRuns' = filterRuns + 1
    /\ UNCHANGED <<includes, excludes, input, loadVars, syncVars>>

NextFilter == FilterRoot

SpecFilter == InitFilter /\ [][NextFilter]_vars

\* The keep rule of the Filter Engine.
Keep(node) ==
    /\ includes = <<>> \/ \E p \in Range(includes) : GlobMatch(p, node.root_path)
    /\ \A p \in Range(excludes) : ~GlobMatch(p, node.root_path)

\* C1: after filter_tree(root) has returned, every leaf left in the tree,
\* the root aside, satisfies the keep rule (included and not excluded).
C1_LeavesKept ==
    filterRuns >= 1 =>
        \A n \in Range(Descendants(root)) : IsLeaf(n) => Keep(n)

\* C1 witness: a filtered tree that lost nodes and still holds a node that
\* became a leaf by the pruning (a group without children) next to an
\* original leaf, with both pattern lists in use.
C1_Witness ==
    /\ filterRuns = 1
    /\ includes # <<>> /\ excludes # <<>>
    /\ root # input
    /\ \E n \in Range(Descendants(root)) : IsLeaf(n) /\ n.type # "project"
    /\ \E n \in Range(Descendants(root)) : IsLeaf(n) /\ n.type = "project"

\* C2: filtering the filtered tree again with the same patterns detaches
\* nothing: the tree after the second call equals the tree before it.
C2_Idempotent ==
    filterRuns >= 2 => root = prevRoot

\* C2 witness: a second call made on a tree the first call has pruned
\* without emptying it.
C2_Witness ==
    /\ filterRuns = 2
    /\ prevRoot # input
    /\ Len(Descendants(root)) >= 2

(***************************************************************************)
(* Spec: load_tree() from each of its three sources                        *)
(***************************************************************************)
MaxFileNodes == 2      \* nodes below the root of a stored tree

\* A stored tree whose nodes were renamed by hand after the export: the
\* names change, the stored root_path strings do not.
RECURSIVE Renamed(_), RenamedAll(_)
RenamedAll(cs) ==
    IF cs = <<>> THEN <<>> ELSE <<Renamed(Head(cs))>> \o RenamedAll(Tail(cs))
Renamed(node) ==
    [node EXCEPT !.name = IF @ = <<"b">> THEN <<"c">> ELSE @,
                 !.children = RenamedAll(@)]

ExportedTrees ==
    { [EmptyRoot EXCEPT !.children = BuiltAll(f, <<EmptyRoot.name>>)] :
        f \in UNION { ForestsOf(n) : n \in 0..MaxFileNodes } }

Files ==
    {NoFile, [state |-> "unreadable", tree |-> EmptyRoot]}
        \cup { [state |-> "ok", tree |-> t] : t \in ExportedTrees }
        \cup { [state |-> "ok", tree |-> Renamed(t)] : t \in ExportedTrees }

\* Forests of groups: a group's parent has a smaller id, or it has none.
GroupForests == { f \in [GroupIds -> 0..NumGroups] : \A g \in GroupIds : f[g] < g }

ApiFaults ==
    {NoFault}
        \cup { [call |-> "groups", group |-> 0, kind |-> k] : k \in FailureKinds }
        \cup { [call |-> c, group |-> g, kind |-> k] :
                 c \in {"subgroups", "projects", "get"}, g \in GroupIds, k \in FailureKinds }
UserFaults ==
    {NoFault} \cup { [call |-> "user", group |-> 0, kind |-> k] : k \in FailureKinds }
\* The listing of the projects shared into group g may fail as well.
SharedFaults(g) ==
    {NoFault}
        \cup { [call |-> "shared", group |-> g, kind |-> k] :
                 k \in {"ListError", "AuthError"} }

\* The groups above g, g included.
RECURSIVE Ancestors(_, _)
Ancestors(parents, g) ==
    IF g = 0 THEN {} ELSE {g} \cup Ancestors(parents, parents[g])

\* One project is shared into a group; the remote refuses to share a
\* project into its own group or a group above it.
NotShared == [p \in ProjectIds |-> 0]
ShareMaps(parents, owner) ==
    UNION { { [NotShared EXCEPT ![p] = g] :
                g \in GroupIds \ Ancestors(parents, owner[p]) } : p \in ProjectIds }

LoadIncludes ==
    { <<>>,
      << <<"G", "/", "S", "/", "*">> >>,
      << <<"/", "G", "/", "S", "/", "*">> >> }
LoadExcludes ==
    { <<>>, << <<"/", "*", "*", "/", "P", "2">>, <<"/", "a", "/", "*">> >> }

Init ==
    /\ root = EmptyRoot
    /\ includes \in LoadIncludes
    /\ excludes \in LoadExcludes
    /\ input = EmptyRoot /\ prevRoot = EmptyRoot /\ filterRuns = 0
    /\ naming \in {"path", "name", "branch"}
    /\ loadState = "new"
    /\ SyncIdle
    /\ \/ /\ in_file = None /\ user_projects = FALSE
          /\ group_parent \in GroupForests
          /\ project_group \in [ProjectIds -> GroupIds]
          /\ include_shared = FALSE /\ project_shared = NotShared
          /\ fault \in ApiFaults
          /\ user_owned = {}
          /\ file = NoFile
       \/ /\ in_file = None /\ user_projects = FALSE
          /\ group_parent \in GroupForests
          /\ project_group \in [ProjectIds -> GroupIds]
          /\ include_shared \in BOOLEAN
          /\ project_shared \in ShareMaps(group_parent, project_group)
          /\ \E p \in ProjectIds :
                project_shared[p] # 0 /\ fault \in SharedFaults(project_shared[p])
          /\ includes = <<>>
          /\ user_owned = {}
          /\ file = NoFile
       \/ /\ in_file = None /\ user_projects = TRUE
          /\ group_parent = [g \in GroupIds |-> 0]
          /\ project_group = [p \in ProjectIds |-> 1]
          /\ include_shared = FALSE /\ project_shared = NotShared
          /\ fault \in UserFaults
          /\ user_owned \in SUBSET ProjectIds
          /\ file = NoFile
       \/ /\ in_file = <<"t">> /\ user_projects \in BOOLEAN
          /\ group_parent = [g \in GroupIds |-> 0]
          /\ project_group = [p \in ProjectIds |-> 1]
          /\ include_shared = FALSE /\ project_shared = NotShared
          /\ fault = NoFault
          /\ user_owned = {}
          /\ file \in Files

\* The end of load_tree: filter_tree(self.root), then a normal return; the
\* except clause around the whole body logs and returns as well.
FilterAndReturn(tree) ==
    /\ root' = filter_tree(tree)
    /\ loadState' = "returned"
    /\ UNCHANGED <<includes, excludes, filterVars, in_file, user_projects, naming,
                   include_shared, group_parent, project_group, project_shared,
                   user_owned, fault, file, syncVars>>

\* Mutant: an input file that cannot be read is reported as GitlabTreeError.
LoadFromFileStrict ==
    /\ loadState = "new"
    /\ in_file # None
    /\ IF file.state = "ok"
       THEN FilterAndReturn(load_file_tree)
       ELSE /\ loadState' = "raised"
            /\ UNCHANGED <<treeVars, filterVars, in_file, user_projects, naming,
                           include_shared, group_parent, project_group,
                           project_shared, user_owned, fault, file, syncVars>>

\* load_tree() with self.in_file set
LoadFromFile ==
    /\ loadState = "new"
    /\ in_file # None
    /\ FilterAndReturn(load_file_tree)

\* load_tree() with self.user_projects set and no in_file
LoadUserProjects ==
    /\ loadState = "new"
    /\ in_file = None /\ user_projects
    /\ FilterAndReturn(load_user_tree)

\* load_tree() otherwise
LoadFromGitlab ==
    /\ loadState = "new"
    /\ in_file = None /\ ~user_projects
    /\ FilterAndReturn(load_gitlab_tree)

Next == LoadFromFile \/ LoadUserProjects \/ LoadFromGitlab

Spec == Init /\ [][Next]_vars

(***************************************************************************)
(* Properties of load_tree                                                 *)
(***************************************************************************)
ApiMode == in_file = None /\ ~user_projects

\* The scenario tree: root -> G -> (S -> P1), P2, every root_path the
\* "/"-joined names from the root.
ScenarioP1 ==
    [name |-> <<"P", "1">>, type |-> "project",
     root_path |-> <<"/", "G", "/", "S", "/", "P", "1">>,
     default_branch |-> None, children |-> <<>>]
ScenarioP2 ==
    [name |-> <<"P", "2">>, type |-> "project",
     root_path |-> <<"/", "G", "/", "P", "2">>,
     default_branch |-> None, children |-> <<>>]
ScenarioS(kids) ==
    [name |-> <<"S">>, type |-> "subgroup", root_path |-> <<"/", "G", "/", "S">>,
     default_branch |-> None, children |-> kids]
ScenarioG(kids) ==
    [name |-> <<"G">>, type |-> "group", root_path |-> <<"/", "G">>,
     default_branch |-> None, children |-> kids]
ScenarioTree ==
    [EmptyRoot EXCEPT !.children = <<ScenarioG(<<ScenarioS(<<ScenarioP1>>), ScenarioP2>>)>>]
ScenarioFiltered ==
    [EmptyRoot EXCEPT !.children = <<ScenarioG(<<ScenarioS(<<ScenarioP1>>)>>)>>]

ScenarioLoaded ==
    /\ loadState = "returned"
    /\ ApiMode
    /\ Loaded = ScenarioTree
    /\ excludes = <<>>

\* C3 as stated: in the scenario G -> (S -> P1), P2, the include list
\* ["G/S/*"] leaves exactly root -> G -> S -> P1.
C3_Original ==
    (ScenarioLoaded /\ includes = << <<"G", "/", "S", "/", "*">> >>)
        => root = ScenarioFiltered

\* C3 amended: in the scenario, the include list ["/G/S/*"] leaves exactly
\* root -> G -> S -> P1, and the include list ["G/S/*"] leaves the root
\* alone, because every root_path starts with "/".
C3_Amended ==
    /\ (ScenarioLoaded /\ includes = << <<"/", "G", "/", "S", "/", "*">> >>)
          => root = ScenarioFiltered
    /\ (ScenarioLoaded /\ includes = << <<"G", "/", "S", "/", "*">> >>)
          => root = EmptyRoot

\* C3 witness: the scenario tree was built and filtered with ["/G/S/*"].
C3_Witness ==
    /\ ScenarioLoaded
    /\ includes = << <<"/", "G", "/", "S", "/", "*">> >>
    /\ root = ScenarioFiltered

\* root_path(n) = root_path(parent(n)) + "/" + name(n), then "/" + branch
\* when n has a default branch, for every node below `node`.
RECURSIVE PathsDerived(_)
PathsDerived(node) ==
    \A i \in 1..Len(node.children) :
        LET child == node.children[i]
        IN  /\ child.root_path =
                 node.root_path \o <<SEP>> \o child.name
                     \o (IF child.default_branch # None
                         THEN <<SEP>> \o child.default_branch ELSE <<>>)
            /\ PathsDerived(child)

StoredPaths(tree) == { <<n.name, n.root_path>> : n \in Range(Descendants(tree)) }

GroupNodeName(g) == IF naming = "name" THEN GroupNames[g] ELSE GroupPaths[g]
RECURSIVE GroupChain(_)
GroupChain(g) ==
    IF group_parent[g] = 0 THEN <<EmptyRoot.name, GroupNodeName(g)>>
    ELSE Append(GroupChain(group_parent[g]), GroupNodeName(g))
ExpectedGroupPath(g) == Join(GroupChain(g))
ExpectedProjectPath(p) ==
    Join(GroupChain(project_group[p])
            \o <<IF naming = "name" THEN ProjectNames[p] ELSE ProjectPaths[p]>>
            \o (IF naming = "branch" /\ ProjectBranch(p) # None
                THEN <<ProjectBranch(p)>> ELSE <<>>))
TreePaths == { n.root_path : n \in Range(Descendants(root)) }

\* What must survive a failed listing for group X: the sibling groups of X
\* (the other top-level groups when X is one), the projects of X's parent,
\* and every top-level group.
Isolated(X) ==
    /\ \A s \in GroupIds \ {X} :
          group_parent[s] = group_parent[X] => ExpectedGroupPath(s) \in TreePaths
    /\ \A p \in ProjectIds :
          (group_parent[X] # 0 /\ project_group[p] = group_parent[X])
              => ExpectedProjectPath(p) \in TreePaths
    /\ \A g \in GroupIds :
          group_parent[g] = 0 => ExpectedGroupPath(g) \in TreePaths

ListingFailed ==
    /\ loadState = "returned"
    /\ ApiMode
    /\ fault.call \in {"subgroups", "projects"}
    /\ includes = <<>> /\ excludes = <<>>

\* C9: whatever the kind of failure of a listing for group X, the siblings
\* of X, the projects of X's parent and the other top-level groups are in
\* the tree.
C9_Isolation ==
    ListingFailed => Isolated(fault.group)

\* The part of C9 the code keeps: a failure raised as GitlabListError
\* (NotFound, Forbidden, ListError) is isolated.
C9_ListErrorIsolated ==
    (ListingFailed /\ fault.kind # "AuthError") => Isolated(fault.group)

FileFailed ==
    /\ loadState # "new"
    /\ in_file # None
    /\ file.state # "ok"

\* C10 as stated: an input file that is missing or unreadable makes
\* load_tree raise a domain-specific error.
C10_Original ==
    FileFailed => loadState = "raised"

\* C10 amended: an input file that is missing or unreadable is logged;
\* load_tree returns normally and the tree is the empty root.
C10_Amended ==
    FileFailed => (loadState = "returned" /\ root = EmptyRoot)

\* C10 witness: load_tree has run on an unreadable input file.
C10_Witness ==
    FileFailed /\ file.state = "unreadable"

\* The destination paths of the actions one sync run derives from the tree.
ActionPaths ==
    LET acts == get_git_actions(root, dest, recursive, use_fetch)
    IN  [i \in 1..Len(acts) |-> acts[i].path]

\* C11: for every tree the Tree Builder has produced and filtered, the
\* sync actions derived from it have pairwise distinct destination paths.
C11_DisjointPaths ==
    (loadState = "returned" /\ in_file = None) =>
        \A i, j \in DOMAIN ActionPaths : i # j => ActionPaths[i] # ActionPaths[j]

\* The part of C11 the code keeps: without shared-project inclusion the
\* destination paths are pairwise distinct, whatever the naming strategy.
C11_DisjointWithoutShared ==
    (loadState = "returned" /\ in_file = None /\ ~include_shared) =>
        \A i, j \in DOMAIN ActionPaths : i # j => ActionPaths[i] # ActionPaths[j]

(***************************************************************************)
(* SpecSync: one sync run over a loaded and filtered tree                  *)
(***************************************************************************)
\* Trees to sync, from the shapes of ForestsOf: the i-th child of a node is
\* named SiblingNames[i], so siblings carry distinct names as they do on the
\* remote; a node without children is a project when its shape is labelled
\* "a" and an empty group or subgroup otherwise.
SiblingNames == << <<"a">>, <<"b">>, <<"c">>, <<"d">> >>
RECURSIVE SyncBuilt(_, _, _)
SyncBuilt(raws, parentNames, i) ==
    IF raws = <<>> THEN <<>>
    ELSE LET raw == Head(raws)
             name == SiblingNames[i]
             group == IF Len(parentNames) = 1 THEN "group" ELSE "subgroup"
             type == IF raw.children # <<>> THEN group
                     ELSE IF raw.name = <<"a">> THEN "project" ELSE group
             node == make_node(type, name, parentNames, None)
         IN  <<[node EXCEPT !.children = SyncBuilt(raw.children, Append(parentNames, name), 1)]>>
                 \o SyncBuilt(Tail(raws), parentNames, i + 1)

SyncTrees ==
    { [EmptyRoot EXCEPT !.children = SyncBuilt(f, <<EmptyRoot.name>>, 1)] :
        f \in UNION { ForestsOf(n) : n \in 0..MaxSyncNodes } }

UserGitOptions == { None, <<"-", "q", ",", "-", "v">> }

\* The protected-branch lists the Tree Builder may have attached to the
\* projects: every branch, or the release branches.
ProtectedLists == { << <<"*">> >>, << <<"r", "/", "*">> >> }

\* The tree with the list attached to the project at root_path `at`; the
\* other projects have no protected branches, hence no such attribute.
RECURSIVE Protected(_, _, _), ProtectedAll(_, _, _)
ProtectedAll(cs, at, protected_branches) ==
    IF cs = <<>> THEN <<>>
    ELSE <<Protected(Head(cs), at, protected_branches)>>
             \o ProtectedAll(Tail(cs), at, protected_branches)
Protected(node, at, protected_branches) ==
    IF node.type = "project"
    THEN IF node.root_path = at THEN SetProtected(node, protected_branches) ELSE node
    ELSE [node EXCEPT !.children = ProtectedAll(@, at, protected_branches)]

\* The projects of a tree, in pre-order.
Projects(tree) == SelectSeq(Descendants(tree), LAMBDA n : n.type = "project")

ProtectedTrees ==
    { Protected(t, Projects(t)[1].root_path, pb) :
        t \in { u \in SyncTrees : Projects(u) # <<>> },
        pb \in ProtectedLists }

\* A sync run starts from a tree without protected branches under any
\* configuration, with some leaves cloned before (as working copies), or
\* from a tree with protected branches and an empty destination under a
\* configuration that lets the worktrees be reconciled. Either way the
\* runs that follow the first find what the earlier runs left.
InitSync ==
    /\ includes = <<>> /\ excludes = <<>>
    /\ input = EmptyRoot /\ prevRoot = EmptyRoot /\ filterRuns = 0
    /\ LoadIdle
    /\ \/ /\ root \in SyncTrees
          /\ entry \in {"GitlabTree.sync_tree", "git.sync_tree"}
          /\ concurrency \in 0..MaxConcurrency
          /\ recursive \in BOOLEAN
          /\ git_options \in UserGitOptions
       \/ /\ root \in ProtectedTrees
          /\ entry = "git.sync_tree"
          /\ concurrency \in 1..MaxConcurrency
          /\ recursive = FALSE
          /\ git_options = None
          /\ repos = {}
    /\ dest = <<"d">>
    /\ use_fetch \in BOOLEAN
    /\ repos \in SUBSET { dest \o n.root_path : n \in {m \in Range(Descendants(root)) : IsLeaf(m)} }
    /\ bare = {}
    /\ dirs = repos
    /\ actions = <<>>
    /\ started = 0
    /\ running = {}
    /\ result = <<>>
    /\ op = <<>>
    /\ todo = <<>>
    /\ wt = <<>>
    /\ syncState = "new"

syncConfig == <<entry, dest, concurrency, recursive, use_fetch, git_options>>

\* sync_tree up to the creation of the pool, in a first run or in a run that
\* follows a finished one: the actions are derived, the directories made;
\* ThreadPoolExecutor refuses max_workers <= 0 with a ValueError, which
\* GitlabTree.sync_tree wraps in a GitlabTreeError. executor.map then
\* queues every action at once.
SyncStart ==
    /\ syncState \in {"new", "returned"}
    /\ actions' = get_git_actions(root, dest, recursive, use_fetch)
    /\ dirs' = dirs \cup MadeDirs(root, dest)
    /\ started' = 0
    /\ result' = [i \in 1..Len(actions') |-> "none"]
    /\ op' = [i \in 1..Len(actions') |-> NoOp]
    /\ todo' = [i \in 1..Len(actions') |-> <<>>]
    /\ wt' = [i \in 1..Len(actions') |-> <<>>]
    /\ syncState' =
          IF concurrency >= 1 THEN "running"
          ELSE IF entry = "GitlabTree.sync_tree" THEN "GitlabTreeError"
          ELSE "ValueError"
    /\ UNCHANGED <<treeVars, filterVars, loadVars, syncConfig, repos, bare, running>>

\* A pool worker takes the next action off the queue and runs
\* clone_or_pull_project up to its VCS call; an action for a node that is
\* neither a repository nor a project returns at once.
WorkerStart ==
    /\ syncState = "running"
    /\ started < Len(actions)
    /\ Cardinality(running) < concurrency
    /\ LET i == started + 1
           o == Operation(actions[i])
       IN  /\ started' = i
           /\ op' = [op EXCEPT ![i] = o]
           /\ IF o.kind = "skip"
              THEN /\ result' = [result EXCEPT ![i] = "ok"]
                   /\ UNCHANGED running
              ELSE /\ running' = running \cup {i}
                   /\ UNCHANGED result
    /\ UNCHANGED <<treeVars, filterVars, loadVars, syncConfig, dirs, repos, bare,
                   actions, todo, wt, syncState>>

\* The VCS call of a running action ends. After a success the branches to
\* reconcile are resolved; with none of them, and after a failure, the
\* work item is over and the worker is free again.
WorkerFinish ==
    /\ syncState = "running"
    /\ \E i \in running, outcome \in Outcomes :
          /\ todo[i] = <<>>
          /\ LET cloned == op[i].kind = "clone" /\ outcome = "ok"
                 mirrors == IF cloned /\ MIRROR_FLAG \in Range(op[i].options)
                            THEN bare \cup {actions[i].path}
                            ELSE bare
                 branches == IF outcome = "ok"
                             THEN MatchedBranches(actions[i], mirrors)
                             ELSE <<>>
             IN  /\ repos' = IF cloned THEN repos \cup {actions[i].path} ELSE repos
                 /\ bare' = mirrors
                 /\ todo' = [todo EXCEPT ![i] = branches]
                 /\ IF branches = <<>>
                    THEN /\ running' = running \ {i}
                         /\ result' = [result EXCEPT ![i] = FutureOf(outcome)]
                    ELSE UNCHANGED <<running, result>>
    /\ UNCHANGED <<treeVars, filterVars, loadVars, syncConfig, dirs, actions, started,
                   op, wt, syncState>>

\* One pass of the loop of create_or_update_worktrees, for the next matched
\* branch of an action whose clone or update succeeded. A created worktree
\* is a directory that git accepts as a repository. After the last branch
\* the work item is over.
WorktreeStep ==
    /\ syncState = "running"
    /\ \E i \in running :
          /\ todo[i] # <<>>
          /\ LET branch == Head(todo[i])
                 rest == Tail(todo[i])
                 path == WorktreePath(actions[i].path, branch)
                 kind == WorktreeOperation(path)
             IN  IF branch = HEAD_name
                 THEN /\ todo' = [todo EXCEPT ![i] = rest]
                      /\ running' = IF rest = <<>> THEN running \ {i} ELSE running
                      /\ result' = IF rest = <<>> THEN [result EXCEPT ![i] = "ok"] ELSE result
                      /\ UNCHANGED <<wt, dirs, repos>>
                 ELSE \E outcome \in WorktreeOutcomes(kind, branch) :
                        LET over == rest = <<>> \/ outcome = "interrupt"
                            made == kind = "add" /\ outcome = "ok"
                        IN  /\ wt' = [wt EXCEPT ![i] =
                                         Append(@, [branch |-> branch, path |-> path,
                                                    kind |-> kind, outcome |-> outcome])]
                            /\ dirs' = IF made THEN dirs \cup {path} ELSE dirs
                            /\ repos' = IF made THEN repos \cup {path} ELSE repos
                            /\ todo' = [todo EXCEPT ![i] = IF over THEN <<>> ELSE rest]
                            /\ running' = IF over THEN running \ {i} ELSE running
                            /\ result' =
                                  IF outcome = "interrupt"
                                  THEN [result EXCEPT ![i] = "KeyboardInterrupt"]
                                  ELSE IF over THEN [result EXCEPT ![i] = "ok"]
                                  ELSE result
    /\ UNCHANGED <<treeVars, filterVars, loadVars, syncConfig, bare, actions, started,
                   op, syncState>>

\* Mutant: the pool is shut down without waiting for its workers.
SyncReturnNoWait ==
    /\ syncState = "running"
    /\ syncState' = "returned"
    /\ UNCHANGED <<treeVars, filterVars, loadVars, syncConfig, dirs, repos, bare,
                   actions, started, running, result, op, todo, wt>>

\* The with-block of sync_tree ends (shutdown(wait=True)): every queued
\* action was taken and no worker is busy; the futures are never read.
SyncReturn ==
    /\ syncState = "running"
    /\ started = Len(actions)
    /\ running = {}
    /\ syncState' = "returned"
    /\ UNCHANGED <<treeVars, filterVars, loadVars, syncConfig, dirs, repos, bare,
                   actions, started, running, result, op, todo, wt>>

NextSync == SyncStart \/ WorkerStart \/ WorkerFinish \/ WorktreeStep \/ SyncReturn

SpecSync == InitSync /\ [][NextSync]_vars

(***************************************************************************)
(* Properties of a sync run                                                *)
(***************************************************************************)
\* The leaves below the root, in pre-order.
Leaves == SelectSeq(Descendants(root), IsLeaf)
ActionIds == 1..Len(actions)

\* C5: once get_git_actions has returned, and for the rest of the run, the
\* action list holds exactly one action per leaf below the root and none
\* for another node, each with path = dest + root_path of its leaf.
C5_OneActionPerLeaf ==
    syncState # "new" =>
        /\ Len(actions) = Len(Leaves)
        /\ \A i \in ActionIds :
              /\ actions[i].node = Leaves[i]
              /\ actions[i].path = dest \o Leaves[i].root_path

\* C5 witness: a finished run over a tree that holds a leaf below a node
\* that is not a leaf, with an action executed.
C5_Witness ==
    /\ syncState = "returned"
    /\ started >= 1
    /\ Len(Descendants(root)) > Len(actions)

Raising == {"ValueError", "GitlabTreeError"}

\* C6: with concurrency >= 1, sync_tree does not raise; it returns only
\* when every action has completed, whatever the outcomes; and until it
\* returns some step of the run is possible, so no outcome of one action
\* blocks the others.
C6_AllComplete ==
    /\ syncState = "returned" => \A i \in ActionIds : result[i] # "none"
    /\ concurrency >= 1 => syncState \notin Raising
    /\ syncState = "running" => ENABLED NextSync

\* C6 witness: sync_tree has returned from a one-worker run in which an
\* action failed and a later action was cloned successfully.
C6_Witness ==
    /\ syncState = "returned"
    /\ concurrency = 1
    /\ \E i, j \in ActionIds :
          i < j /\ result[i] = "error" /\ result[j] = "ok" /\ op[j].kind = "clone"

\* C7: once an action was interrupted by the user, the run is aborted: no
\* action that had not started begins its clone or update.
C7_InterruptAborts ==
    [][(\E i \in ActionIds : result[i] = "SystemExit") => running' \subseteq running]_vars

\* C8: when the user supplied a git options string, the options of every
\* clone are the --recursive and --mirror flags that apply, followed by the
\* comma-separated elements of that string.
C8_GitOptionsPassed ==
    \A i \in ActionIds :
        (op[i].kind = "clone" /\ git_options # None) =>
            op[i].options =
                (IF recursive THEN <<RECURSIVE_FLAG>> ELSE <<>>)
                    \o (IF use_fetch THEN <<MIRROR_FLAG>> ELSE <<>>)
                    \o Split(git_options)

\* What clone_or_pull_project is to do for an action, from the state of
\* its destination path.
Expected(action) ==
    IF action.path \in repos THEN (IF use_fetch THEN "fetch" ELSE "pull")
    ELSE IF action.node.type # "project" THEN "skip"
    ELSE "clone"

\* C12: the operation chosen for an action, when a worker takes it, is the
\* update (pull, or fetch with use_fetch) if its path is a repository, else
\* nothing if its node is no project, else a clone; the directory of the
\* path exists by then, so a project whose directory is no repository is
\* cloned; and no action for an empty group or subgroup is ever a clone.
C12_OneOutcome ==
    /\ [](\A i \in DOMAIN op : op[i].kind = "clone" => actions[i].node.type = "project")
    /\ [][\A i \in DOMAIN op \cap DOMAIN op' :
             (op[i] = NoOp /\ op'[i] # NoOp) =>
                 /\ op'[i].kind = Expected(actions[i])
                 /\ actions[i].path \in dirs]_vars

\* C12 witness: in one run a project whose directory existed without being
\* a repository was cloned, an empty group was passed over, and neither
\* path was touched by the other outcome.
C12_Witness ==
    /\ syncState = "returned"
    /\ \E i, j \in ActionIds :
          /\ op[i].kind = "clone" /\ result[i] = "ok"
          /\ actions[i].path \in repos
          /\ op[j].kind = "skip" /\ actions[j].node.type = "group"
          /\ actions[j].path \in dirs \ repos

\* C13: no worktree operation, creation or update, is made for the branch
\* the main working tree has checked out.
C13_HeadSkipped ==
    \A i \in DOMAIN wt : \A k \in DOMAIN wt[i] : wt[i][k].branch # HeadBranch

\* The remote-tracking branches of the repository of an action, without
\* the origin/ prefix, and those of them its node's patterns match.
RemoteBranches(action) ==
    IF action.path \in bare THEN {} ELSE {MAIN, RELEASE1, RELEASE2}
Matched(action) ==
    { b \in RemoteBranches(action) :
        \E p \in Range(action.node.protected_branches) : FnMatch(b, p) }

\* The worktrees on disk: every directory that is not the directory of a
\* tree node was made by a successful worktree creation.
Worktrees == dirs \ MadeDirs(root, dest)

\* The state part of C14: an action whose clone or update succeeded and
\* whose work item ended normally has made, for every matched branch (the
\* checked-out branch aside), exactly one worktree operation, on the
\* sibling path of that branch, whatever the outcomes of the others; and
\* every worktree created successfully exists.
C14_Reconciled ==
    \A i \in ActionIds :
        /\ \A k \in DOMAIN wt[i] :
              /\ wt[i][k].branch \in Matched(actions[i])
              /\ wt[i][k].path = WorktreePath(actions[i].path, wt[i][k].branch)
              /\ (wt[i][k].kind = "add" /\ wt[i][k].outcome = "ok")
                    => wt[i][k].path \in Worktrees
        /\ (/\ result[i] = "ok"
            /\ op[i].kind \in {"clone", "pull", "fetch"}
            /\ hasattr(actions[i].node, "protected_branches"))
              => \A b \in Matched(actions[i]) \ {HeadBranch} :
                    Cardinality({k \in DOMAIN wt[i] : wt[i][k].branch = b}) = 1

\* The step part of C14: the operation made for a branch is a pull if its
\* sibling path exists when the operation is made and a creation
\* otherwise, so a worktree that exists is never created again; and no
\* directory disappears, so a worktree made in one run exists in the next.
C14_Step ==
    /\ dirs \subseteq dirs'
    /\ \A i \in DOMAIN wt \cap DOMAIN wt' :
          Len(wt'[i]) = Len(wt[i]) + 1 =>
              LET e == wt'[i][Len(wt'[i])]
              IN  /\ e.kind = (IF e.path \in dirs THEN "pull" ELSE "add")
                  /\ e.path \in Worktrees => e.kind = "pull"

\* C14: after a successful clone or update of a project with protected
\* branches, each matched branch is reconciled by exactly one operation on
\* its sibling path, a pull if the path exists and a creation otherwise; a
\* later run pulls the worktrees an earlier run created; a failed
\* operation does not keep the remaining branches from being reconciled.
C14_WorktreesReconciled ==
    []C14_Reconciled /\ [][C14_Step]_vars

\* C14 witness: a run has returned in which, for a project with the
\* patterns ["r/*"], the pull of the worktree of r/1, which an earlier run
\* had created next to the project, failed, and the worktree of r/2 was
\* created all the same.
C14_Witness ==
    /\ syncState = "returned"
    /\ \E i \in ActionIds :
          /\ actions[i].path = <<"d", "/", "a", "/", "a">>
          /\ result[i] = "ok"
          /\ Len(wt[i]) = 2
          /\ wt[i][1] = [branch |-> RELEASE1, path |-> <<"d", "/", "a", "/", "r", "-", "1">>,
                         kind |-> "pull", outcome |-> "error"]
          /\ wt[i][2] = [branch |-> RELEASE2, path |-> <<"d", "/", "a", "/", "r", "-", "2">>,
                         kind |-> "add", outcome |-> "ok"]
          /\ \A j \in ActionIds : \A k \in DOMAIN wt[j] :
                wt[j][k].path = wt[i][1].path => wt[j][k].kind = "pull"

====
